---- MODULE Spec2Model ----
(***************************************************************************)
(* A model of evaluator/src/value.rs: the Value enum of the Quint          *)
(* evaluator, its canonical equivalence (PartialEq, Ord, Hash), the lazy   *)
(* set algebra (cardinality, contains, subseteq, as_set,                   *)
(* powerset_at_index) and closure invocation (as_closure).                 *)
(*                                                                         *)
(* Representation.  A Value is a tuple whose first component is the name   *)
(* of its enum variant.  The imbl hash collections are TLA+ sets: a        *)
(* GenericHashSet<Value> is a set of Values, a GenericHashMap<K, V> a set  *)
(* of <<key, value>> pairs.  What the hash collections do with their       *)
(* elements (hash them, then compare with ==) is modelled by HashLookup,   *)
(* Insert and Collect below.  Two hashes are taken to be equal exactly     *)
(* when the same words were fed to the hasher (hash).                      *)
(*                                                                         *)
(* A Rust panic is the result Panic; every other result r is Ok(r).        *)
(***************************************************************************)
EXTENDS Integers, Sequences, FiniteSets, TLC

VARIABLES a, b, idx, op, res,          \* one application of a Value operation
          registers, stack, log        \* one Lambda and its invocations

vars == <<a, b, idx, op, res, registers, stack, log>>

(***************************************************************************)
(* Results and panics                                                      *)
(***************************************************************************)
Panic == <<"panic">>
Ok(x) == <<"ok", x>>
IsPanic(r) == r[1] = "panic"
IsOk(r) == r[1] = "ok"
Val(r) == r[2]

\* `x && y`, and Iterator::all over the results rs in order: the first result
\* that is not Ok(TRUE) (a false or a panic) is the outcome.
AndThen(r1, r2) == IF r1 = Ok(TRUE) THEN r2 ELSE r1

AllOf(rs) ==
    IF \A i \in DOMAIN rs : rs[i] = Ok(TRUE)
    THEN Ok(TRUE)
    ELSE rs[CHOOSE i \in DOMAIN rs :
                /\ rs[i] # Ok(TRUE)
                /\ \A j \in DOMAIN rs : j < i => rs[j] = Ok(TRUE)]

(***************************************************************************)
(* enum Value                                                              *)
(***************************************************************************)
VInt(n) == <<"Int", n>>
VBool(t) == <<"Bool", t>>
VStr(s) == <<"Str", s>>
VSet(S) == <<"Set", S>>
VTuple(s) == <<"Tuple", s>>
VRecord(F) == <<"Record", F>>
VMap(M) == <<"Map", M>>
VList(s) == <<"List", s>>
VLambda(id) == <<"Lambda", id>>
VVariant(l, v) == <<"Variant", l, v>>
VInterval(lo, hi) == <<"Interval", lo, hi>>
VCrossProduct(ms) == <<"CrossProduct", ms>>
VPowerSet(v) == <<"PowerSet", v>>
VMapSet(d, r) == <<"MapSet", d, r>>

Kind(v) == v[1]

\* core::mem::discriminant: the position of the variant in the enum.
Discr(v) ==
    CASE Kind(v) = "Int" -> 0
      [] Kind(v) = "Bool" -> 1
      [] Kind(v) = "Str" -> 2
      [] Kind(v) = "Set" -> 3
      [] Kind(v) = "Tuple" -> 4
      [] Kind(v) = "Record" -> 5
      [] Kind(v) = "Map" -> 6
      [] Kind(v) = "List" -> 7
      [] Kind(v) = "Lambda" -> 8
      [] Kind(v) = "Variant" -> 9
      [] Kind(v) = "Interval" -> 10
      [] Kind(v) = "CrossProduct" -> 11
      [] Kind(v) = "PowerSet" -> 12
      [] Kind(v) = "MapSet" -> 13

is_set(v) == Kind(v) \in {"Set", "Interval", "CrossProduct", "PowerSet", "MapSet"}

(***************************************************************************)
(* Helpers standing for the Rust and imbl primitives the code calls        *)
(***************************************************************************)
\* Iterating a hash collection: an order fixed by the content of the
\* collection (fxhash is deterministic), otherwise arbitrary.
RECURSIVE SetToSeq(_)
SetToSeq(S) ==
    IF S = {} THEN <<>>
    ELSE LET x == CHOOSE y \in S : TRUE IN <<x>> \o SetToSeq(S \ {x})

\* The alphabet of Str payloads, labels and field names, in string order.
Names == <<"a", "b", "c">>
NameRank(s) == CHOOSE i \in DOMAIN Names : Names[i] = s

CmpNat(x, y) == IF x < y THEN "Less" ELSE IF x = y THEN "Equal" ELSE "Greater"
CmpName(s, t) == CmpNat(NameRank(s), NameRank(t))

\* usize::pow (0.pow(0) is 1), `1 << n` and `x & y` on usize.
RECURSIVE Pow(_, _)
Pow(x, n) == IF n = 0 THEN 1 ELSE x * Pow(x, n - 1)
Shl1(n) == Pow(2, n)
RECURSIVE BitAnd(_, _)
BitAnd(x, y) ==
    IF x = 0 \/ y = 0 THEN 0
    ELSE (x % 2) * (y % 2) + 2 * BitAnd(x \div 2, y \div 2)

(***************************************************************************)
(* impl Ord, impl Hash, impl PartialEq and the set algebra of Value        *)
(***************************************************************************)
\* A call of one operation of Value on a receiver and its arguments.  The
\* operations call each other, directly and through the collections, so every
\* call goes through Call, which is defined after them, at the end of this
\* part.
RECURSIVE Call(_, _)
eq(x, y) == Call("eq", <<x, y>>)
cmp(x, y) == Call("cmp", <<x, y>>)
hash(v) == Call("hash", <<v>>)
as_set(v) == Call("as_set", <<v>>)
cardinality(v) == Call("cardinality", <<v>>)
contains(r, elem) == Call("contains", <<r, elem>>)
subseteq(sub, sup) == Call("subseteq", <<sub, sup>>)

\* The elements of a hash collection have been hashed and compared before, so
\* hashing and comparing them again does not panic: Val is applied directly.
KeyMatch(m, e) == Val(hash(m)) = Val(hash(e)) /\ Val(eq(m, e))

\* GenericHashSet::contains: hash the element, then compare with ==.
HashLookup(S, e) ==
    IF IsPanic(hash(e)) THEN Panic
    ELSE Ok(\E m \in S : hash(m) = hash(e) /\ eq(m, e) = Ok(TRUE))

\* GenericHashSet::insert, and collecting a sequence into a GenericHashSet.
Insert(S, e) == IF HashLookup(S, e) = Ok(TRUE) THEN S ELSE S \cup {e}

RECURSIVE Collect(_, _)
Collect(S, s) ==
    IF s = <<>> THEN S
    ELSE IF HashLookup(S, Head(s)) = Ok(TRUE) THEN Collect(S, Tail(s))
    ELSE Collect(Insert(S, Head(s)), Tail(s))

\* GenericHashMap::from_iter: a later pair replaces an earlier one with the
\* same key.
RECURSIVE MapFromPairs(_, _)
MapFromPairs(M, s) ==
    IF s = <<>> THEN M
    ELSE LET p == Head(s)
             kept == {q \in M : ~KeyMatch(q[1], p[1])}
         IN MapFromPairs(kept \cup {p}, Tail(s))

\* GenericHashSet == GenericHashSet: same length and the same elements.
HashSetEq(A, B) ==
    /\ Cardinality(A) = Cardinality(B)
    /\ \A x \in A : HashLookup(B, x) = Ok(TRUE)
    /\ \A y \in B : HashLookup(A, y) = Ok(TRUE)

\* GenericHashSet::is_subset.
HashSetIsSubset(A, B) == \A x \in A : HashLookup(B, x) = Ok(TRUE)

\* GenericHashMap == GenericHashMap: same length, and every key of one maps
\* to an equal value in the other.  Record keys are names, Map keys Values.
KeyEq(kind, k1, k2) == IF kind = "Record" THEN k1 = k2 ELSE KeyMatch(k1, k2)

HashMapEq(kind, A, B) ==
    IF Cardinality(A) # Cardinality(B) THEN Ok(FALSE)
    ELSE LET as == SetToSeq(A)
             found(p) == IF \E q \in B : KeyEq(kind, p[1], q[1])
                         THEN eq(p[2], (CHOOSE q \in B : KeyEq(kind, p[1], q[1]))[2])
                         ELSE Ok(FALSE)
         IN AndThen(AllOf([i \in DOMAIN as |-> found(as[i])]),
                    Ok(\A q \in B : \E p \in A : KeyEq(kind, p[1], q[1])))

\* Vector == Vector and Vec == Vec: same length, then element by element.
EqSeq(s, t) ==
    IF Len(s) # Len(t) THEN Ok(FALSE)
    ELSE AllOf([i \in DOMAIN s |-> eq(s[i], t[i])])

\* Vec::cmp and Vector::cmp: lexicographic.
RECURSIVE LexCmp(_, _)
LexCmp(s, t) ==
    IF s = <<>> /\ t = <<>> THEN Ok("Equal")
    ELSE IF s = <<>> THEN Ok("Less")
    ELSE IF t = <<>> THEN Ok("Greater")
    ELSE LET c == cmp(Head(s), Head(t))
         IN IF c = Ok("Equal") THEN LexCmp(Tail(s), Tail(t)) ELSE c

KeyCmp(kind, k1, k2) == IF kind = "Record" THEN Ok(CmpName(k1, k2)) ELSE cmp(k1, k2)

\* Vec<(&K, &Value)>::cmp: lexicographic, each pair by key and then value.
RECURSIVE LexCmpPairs(_, _, _)
LexCmpPairs(kind, s, t) ==
    IF s = <<>> /\ t = <<>> THEN Ok("Equal")
    ELSE IF s = <<>> THEN Ok("Less")
    ELSE IF t = <<>> THEN Ok("Greater")
    ELSE LET k == KeyCmp(kind, Head(s)[1], Head(t)[1])
             c == IF k = Ok("Equal") THEN cmp(Head(s)[2], Head(t)[2]) ELSE k
         IN IF c = Ok("Equal") THEN LexCmpPairs(kind, Tail(s), Tail(t)) ELSE c

\* slice::sort and sort_by: stable.  x goes behind the elements not greater.
RECURSIVE InsertSorted(_, _)
InsertSorted(x, s) ==
    IF s = <<>> THEN <<x>>
    ELSE IF cmp(x, Head(s)) = Ok("Less") THEN <<x>> \o s
    ELSE <<Head(s)>> \o InsertSorted(x, Tail(s))

RECURSIVE SortValues(_)
SortValues(s) ==
    IF s = <<>> THEN <<>>
    ELSE InsertSorted(s[Len(s)], SortValues(SubSeq(s, 1, Len(s) - 1)))

RECURSIVE InsertByKey(_, _, _)
InsertByKey(kind, p, s) ==
    IF s = <<>> THEN <<p>>
    ELSE IF KeyCmp(kind, p[1], Head(s)[1]) = Ok("Less") THEN <<p>> \o s
    ELSE <<Head(s)>> \o InsertByKey(kind, p, Tail(s))

RECURSIVE SortByKey(_, _)
SortByKey(kind, s) ==
    IF s = <<>> THEN <<>>
    ELSE InsertByKey(kind, s[Len(s)], SortByKey(kind, SubSeq(s, 1, Len(s) - 1)))

\* The elements of a set-like value, sorted: what cmp compares and hash feeds.
SortedMembers(v) ==
    IF IsPanic(as_set(v)) THEN Panic ELSE Ok(SortValues(SetToSeq(Val(as_set(v)))))

CmpAsSets(x, y) ==
    IF IsPanic(SortedMembers(x)) \/ IsPanic(SortedMembers(y)) THEN Panic
    ELSE LexCmp(Val(SortedMembers(x)), Val(SortedMembers(y)))

\* The Record and Map arms of cmp on the entries as a.iter() and b.iter()
\* yield them: each side is sorted by key, then the two are compared.
CmpEntries(kind, a_iter, b_iter) ==
    LexCmpPairs(kind, SortByKey(kind, a_iter), SortByKey(kind, b_iter))

Ord_cmp(x, y) ==
    IF Discr(x) # Discr(y) THEN Ok(CmpNat(Discr(x), Discr(y)))
    ELSE CASE Kind(x) = "Int" -> Ok(CmpNat(x[2], y[2]))
           [] Kind(x) = "Bool" -> Ok(CmpNat(IF x[2] THEN 1 ELSE 0, IF y[2] THEN 1 ELSE 0))
           [] Kind(x) = "Str" -> Ok(CmpName(x[2], y[2]))
           [] Kind(x) = "Set" -> CmpAsSets(x, y)
           [] Kind(x) = "Tuple" -> LexCmp(x[2], y[2])
           [] Kind(x) = "Record" -> CmpEntries("Record", SetToSeq(x[2]), SetToSeq(y[2]))
           [] Kind(x) = "Map" -> CmpEntries("Map", SetToSeq(x[2]), SetToSeq(y[2]))
           [] Kind(x) = "List" -> LexCmp(x[2], y[2])
           [] Kind(x) = "Lambda" -> Panic
           [] Kind(x) = "Variant" ->
                IF CmpName(x[2], y[2]) # "Equal" THEN Ok(CmpName(x[2], y[2]))
                ELSE cmp(x[3], y[3])
           [] Kind(x) = "Interval" -> CmpAsSets(x, y)
           [] OTHER -> CmpAsSets(x, y)

\* What Hash::hash feeds the hasher: <<"w", n>> is a 64-bit word (the
\* discriminant, an i64), <<"u8", n>> a byte, <<"str", s>> the bytes of a
\* string and its terminator.
RECURSIVE HashAll(_)
HashAll(s) ==
    IF s = <<>> THEN Ok(<<>>)
    ELSE IF IsPanic(hash(Head(s))) \/ IsPanic(HashAll(Tail(s))) THEN Panic
    ELSE Ok(Val(hash(Head(s))) \o Val(HashAll(Tail(s))))

RECURSIVE HashPairs(_, _)
HashPairs(kind, s) ==
    IF s = <<>> THEN Ok(<<>>)
    ELSE LET k == IF kind = "Record" THEN Ok(<<<<"str", Head(s)[1]>>>>)
                  ELSE hash(Head(s)[1])
             v == hash(Head(s)[2])
             r == HashPairs(kind, Tail(s))
         IN IF IsPanic(k) \/ IsPanic(v) \/ IsPanic(r) THEN Panic
            ELSE Ok(Val(k) \o Val(v) \o Val(r))

HashDiscr(v) == <<<<"w", Discr(v)>>>>

\* The Record and Map arms of hash on the entries as iter() yields them:
\* sorted by key, then key and value of each entry are hashed.
HashEntries(kind, iter) == HashPairs(kind, SortByKey(kind, iter))

HashBody(v) ==
    CASE Kind(v) = "Int" -> Ok(<<<<"w", v[2]>>>>)
      [] Kind(v) = "Bool" -> Ok(<<<<"u8", IF v[2] THEN 1 ELSE 0>>>>)
      [] Kind(v) = "Str" -> Ok(<<<<"str", v[2]>>>>)
      [] Kind(v) = "Set" -> HashAll(SortValues(SetToSeq(v[2])))
      [] Kind(v) = "Tuple" -> HashAll(v[2])
      [] Kind(v) = "Record" -> HashEntries("Record", SetToSeq(v[2]))
      [] Kind(v) = "Map" -> HashEntries("Map", SetToSeq(v[2]))
      [] Kind(v) = "List" -> HashAll(v[2])
      [] Kind(v) = "Lambda" -> Panic
      [] Kind(v) = "Variant" ->
            IF IsPanic(hash(v[3])) THEN Panic
            ELSE Ok(<<<<"str", v[2]>>>> \o Val(hash(v[3])))
      [] OTHER ->
            IF IsPanic(SortedMembers(v)) THEN Panic
            ELSE HashAll(Val(SortedMembers(v)))

Hash_hash(v) ==
    IF IsPanic(HashBody(v)) THEN Panic ELSE Ok(HashDiscr(v) \o Val(HashBody(v)))

EqAsSets(x, y) ==
    IF IsPanic(as_set(x)) \/ IsPanic(as_set(y)) THEN Panic
    ELSE Ok(HashSetEq(Val(as_set(x)), Val(as_set(y))))

PartialEq_eq(x, y) ==
    CASE Kind(x) = "Int" /\ Kind(y) = "Int" -> Ok(x[2] = y[2])
      [] Kind(x) = "Bool" /\ Kind(y) = "Bool" -> Ok(x[2] = y[2])
      [] Kind(x) = "Str" /\ Kind(y) = "Str" -> Ok(x[2] = y[2])
      [] Kind(x) = "Set" /\ Kind(y) = "Set" -> Ok(HashSetEq(x[2], y[2]))
      [] Kind(x) = "Tuple" /\ Kind(y) = "Tuple" -> EqSeq(x[2], y[2])
      [] Kind(x) = "Record" /\ Kind(y) = "Record" -> HashMapEq("Record", x[2], y[2])
      [] Kind(x) = "Map" /\ Kind(y) = "Map" -> HashMapEq("Map", x[2], y[2])
      [] Kind(x) = "List" /\ Kind(y) = "List" -> EqSeq(x[2], y[2])
      [] Kind(x) = "Lambda" /\ Kind(y) = "Lambda" -> Panic
      [] Kind(x) = "Variant" /\ Kind(y) = "Variant" ->
            AndThen(Ok(x[2] = y[2]), eq(x[3], y[3]))
      [] Kind(x) = "Interval" /\ Kind(y) = "Interval" ->
            Ok(x[2] = y[2] /\ x[3] = y[3])
      [] Kind(x) = "CrossProduct" /\ Kind(y) = "CrossProduct" -> EqSeq(x[2], y[2])
      [] Kind(x) = "PowerSet" /\ Kind(y) = "PowerSet" -> eq(x[2], y[2])
      [] Kind(x) = "MapSet" /\ Kind(y) = "MapSet" ->
            AndThen(eq(x[2], y[2]), eq(x[3], y[3]))
      [] OTHER -> IF is_set(x) /\ is_set(y) THEN EqAsSets(x, y) ELSE Ok(FALSE)

(***************************************************************************)
(* cardinality, contains, subseteq, as_set, powerset_at_index              *)
(***************************************************************************)
\* usize has no negative values: a negative count is the panic of
\* `.try_into().unwrap()` (and of the catch-all arm).
CardPanic == -1

\* Iterator::fold(1, |acc, set| acc * set.cardinality()) over the counts cs.
RECURSIVE FoldProduct(_, _)
FoldProduct(acc, cs) ==
    IF cs = <<>> THEN acc
    ELSE IF Head(cs) = CardPanic THEN CardPanic
    ELSE FoldProduct(acc * Head(cs), Tail(cs))

Value_cardinality(v) ==
    CASE Kind(v) \in {"Set", "Record", "Map"} -> Cardinality(v[2])
      [] Kind(v) \in {"Tuple", "List"} -> Len(v[2])
      [] Kind(v) = "Interval" ->
            IF v[3] - v[2] + 1 < 0 THEN CardPanic ELSE v[3] - v[2] + 1
      [] Kind(v) = "CrossProduct" ->
            FoldProduct(1, [i \in DOMAIN v[2] |-> cardinality(v[2][i])])
      [] Kind(v) = "PowerSet" ->
            IF cardinality(v[2]) = CardPanic THEN CardPanic
            ELSE Pow(2, cardinality(v[2]))
      [] Kind(v) = "MapSet" ->
            IF cardinality(v[3]) = CardPanic \/ cardinality(v[2]) = CardPanic
            THEN CardPanic
            ELSE Pow(cardinality(v[3]), cardinality(v[2]))
      [] OTHER -> CardPanic

\* A faulty variant of powerset_at_index that tests `i & (1 << (j + 1))`: it
\* never selects the element at position 0.
powerset_at_index_shifted(base, i) ==
    LET picked == SelectSeq([j \in DOMAIN base |-> j],
                            LAMBDA j : BitAnd(i, Shl1(j)) # 0)
    IN VSet(Collect({}, [k \in DOMAIN picked |-> base[picked[k]]]))

\* The subset that index i selects: the element at position j of the iteration
\* `base` of the base set is inserted when `i & (1 << j)` is not 0.
powerset_at_index(base, i) ==
    LET picked == SelectSeq([j \in DOMAIN base |-> j],
                            LAMBDA j : BitAnd(i, Shl1(j - 1)) # 0)
    IN VSet(Collect({}, [k \in DOMAIN picked |-> base[picked[k]]]))

\* The pairs of map number i of a MapSet: `index % nvalues`, `index /= nvalues`
\* once per key of domain_vec.
MapSetPairs(domain_vec, range_vec, i) ==
    [k \in DOMAIN domain_vec |->
        <<domain_vec[k],
          range_vec[((i \div Pow(Len(range_vec), k - 1)) % Len(range_vec)) + 1]>>]

\* Enumeration.  multi_cartesian_product of no iterators is taken to yield one
\* empty product, so that CrossProduct([]) enumerates to the set of the empty
\* Tuple, its cardinality being the empty fold, 1.
Value_as_set(v) ==
    CASE Kind(v) = "Set" -> Ok(v[2])
      [] Kind(v) = "Interval" -> Ok({VInt(n) : n \in v[2]..v[3]})
      [] Kind(v) = "CrossProduct" ->
            IF cardinality(v) = CardPanic THEN Panic
            ELSE IF cardinality(v) = 0 THEN Ok({})
            ELSE IF \E i \in DOMAIN v[2] : IsPanic(as_set(v[2][i])) THEN Panic
            ELSE LET sets == [i \in DOMAIN v[2] |-> Val(as_set(v[2][i]))]
                     all == UNION {sets[i] : i \in DOMAIN sets}
                     product == {t \in [DOMAIN sets -> all] :
                                    \A i \in DOMAIN sets : t[i] \in sets[i]}
                 IN Ok(Collect({}, SetToSeq({VTuple(t) : t \in product})))
      [] Kind(v) = "PowerSet" ->
            IF IsPanic(as_set(v[2])) THEN Panic
            ELSE LET base == SetToSeq(Val(as_set(v[2])))
                     size == Shl1(Len(base))
                 IN Ok(Collect({}, [i \in 1..size |-> powerset_at_index(base, i - 1)]))
      [] Kind(v) = "MapSet" ->
            IF cardinality(v[2]) = CardPanic THEN Panic
            ELSE IF cardinality(v[2]) = 0 THEN Ok({VMap({})})
            ELSE IF cardinality(v[3]) = CardPanic THEN Panic
            ELSE IF cardinality(v[3]) = 0 THEN Ok({})
            ELSE IF IsPanic(as_set(v[2])) \/ IsPanic(as_set(v[3])) THEN Panic
            ELSE LET domain_vec == SetToSeq(Val(as_set(v[2])))
                     range_vec == SetToSeq(Val(as_set(v[3])))
                     nmaps == Pow(Len(range_vec), Len(domain_vec))
                 IN Ok(Collect({}, [i \in 1..nmaps |->
                        VMap(MapFromPairs({}, MapSetPairs(domain_vec, range_vec, i - 1)))]))
      [] OTHER -> Panic

Value_contains(r, elem) ==
    CASE Kind(r) = "Set" -> HashLookup(r[2], elem)
      [] Kind(r) = "Interval" /\ Kind(elem) = "Int" ->
            Ok(r[2] <= elem[2] /\ elem[2] <= r[3])
      [] Kind(r) = "CrossProduct" /\ Kind(elem) = "Tuple" ->
            IF Len(r[2]) # Len(elem[2]) THEN Ok(FALSE)
            ELSE AllOf([i \in DOMAIN r[2] |-> contains(r[2][i], elem[2][i])])
      [] Kind(r) = "PowerSet" /\ Kind(elem) = "Set" ->
            IF IsPanic(as_set(r[2])) THEN Panic
            ELSE LET base_elems == Val(as_set(r[2]))
                     elems == SetToSeq(elem[2])
                 IN IF Len(elems) > Cardinality(base_elems) THEN Ok(FALSE)
                    ELSE AllOf([i \in DOMAIN elems |-> HashLookup(base_elems, elems[i])])
      [] Kind(r) = "MapSet" /\ Kind(elem) = "Map" ->
            LET entries == SetToSeq(elem[2])
                map_domain == VSet(Collect({}, [i \in DOMAIN entries |-> entries[i][1]]))
            IN AndThen(eq(map_domain, r[2]),
                       AllOf([i \in DOMAIN entries |-> contains(r[3], entries[i][2])]))
      [] OTHER -> Panic

Value_subseteq(sub, sup) ==
    CASE Kind(sub) = "Set" /\ Kind(sup) = "Set" -> Ok(HashSetIsSubset(sub[2], sup[2]))
      [] Kind(sub) = "Interval" /\ Kind(sup) = "Interval" ->
            Ok(sub[2] >= sup[2] /\ sub[3] <= sup[3])
      [] Kind(sub) = "CrossProduct" /\ Kind(sup) = "CrossProduct" ->
            IF Len(sub[2]) # Len(sup[2]) THEN Ok(FALSE)
            ELSE AllOf([i \in DOMAIN sub[2] |-> subseteq(sub[2][i], sup[2][i])])
      [] Kind(sub) = "PowerSet" /\ Kind(sup) = "PowerSet" -> subseteq(sub[2], sup[2])
      [] Kind(sub) = "MapSet" /\ Kind(sup) = "MapSet" ->
            AndThen(eq(sub[2], sup[2]), subseteq(sub[3], sup[3]))
      [] OTHER ->
            IF IsPanic(as_set(sub)) \/ IsPanic(as_set(sup)) THEN Panic
            ELSE Ok(HashSetIsSubset(Val(as_set(sub)), Val(as_set(sup))))

Call(f, args) ==
    CASE f = "eq" -> PartialEq_eq(args[1], args[2])
      [] f = "cmp" -> Ord_cmp(args[1], args[2])
      [] f = "hash" -> Hash_hash(args[1])
      [] f = "as_set" -> Value_as_set(args[1])
      [] f = "cardinality" -> Value_cardinality(args[1])
      [] f = "contains" -> Value_contains(args[1], args[2])
      [] f = "subseteq" -> Value_subseteq(args[1], args[2])

(***************************************************************************)
(* The inputs: a bounded universe of Values                                *)
(***************************************************************************)
MaxInt == 2
MaxArity == 2
\* The largest base that powerset_at_index is applied to.
MaxBase == 4

IntVals == {VInt(n) : n \in 1..MaxInt}
FlatSets == {VSet(S) : S \in SUBSET IntVals}
\* Every Interval(lo, hi) over 1..MaxInt+1: hi >= lo, hi = lo - 1 and hi < lo - 1.
Intervals == {VInterval(lo, hi) : lo, hi \in 1..(MaxInt + 1)}
\* The members of the lazy kinds: sets of integers in both representations,
\* three of them empty.
MemberPool ==
    {VSet({}), VSet(IntVals), VInterval(1, 1), VInterval(1, MaxInt),
     VInterval(2, 1), VInterval(MaxInt + 1, 1)}
CrossProducts ==
    {VCrossProduct(ms) : ms \in UNION {[1..n -> MemberPool] : n \in 0..MaxArity}}
PowerSets == {VPowerSet(x) : x \in MemberPool \cup {VCrossProduct(<<VInterval(1, MaxInt)>>)}}
MapSets == {VMapSet(d, r) : d, r \in MemberPool}
\* Materialized sets of sets.  Interval(1, MaxInt) and the Set of the same
\* integers have different hashes, so one GenericHashSet holds both.
NestedSets ==
    {VSet({VSet(IntVals)}), VSet({VInterval(1, MaxInt)}),
     VSet({VSet(IntVals), VInterval(1, MaxInt)}), VSet({VSet({})}),
     VSet({VTuple(<<VInt(1), VInt(1)>>)}), VSet({VMap({})})}
SetLikes == FlatSets \cup Intervals \cup CrossProducts \cup PowerSets \cup MapSets
                \cup NestedSets

IntSeqs == UNION {[1..n -> IntVals] : n \in 0..MaxArity}
Maps == {VMap({<<k, f[k]>> : k \in D}) : f \in [IntVals -> IntVals], D \in SUBSET IntVals}
Scalars == IntVals \cup {VInt(MaxInt + 1), VBool(TRUE), VBool(FALSE), VStr("a"), VStr("b")}
Structured ==
    {VTuple(s) : s \in IntSeqs} \cup {VList(s) : s \in IntSeqs} \cup Maps
        \cup {VRecord({}), VRecord({<<"a", VInt(1)>>}), VRecord({<<"a", VInt(1)>>, <<"b", VInt(2)>>}),
              VVariant("a", VTuple(<<>>)), VVariant("b", VInt(1)), VLambda(1), VLambda(2),
              VTuple(<<VSet(IntVals)>>), VTuple(<<VInterval(1, MaxInt)>>)}
Elems == Scalars \cup Structured
Values == SetLikes \cup Elems

\* The elements a set-like value is asked about: of the kinds its members can
\* have (an integer for an Interval, a sequence for a CrossProduct, a set for
\* a PowerSet, a Map for a MapSet), and that can be hashed.
Queries(r) ==
    CASE Kind(r) = "Interval" -> {e \in Elems : Kind(e) = "Int"}
      [] Kind(r) = "CrossProduct" -> {e \in Elems : Kind(e) \in {"Tuple", "List"}}
      [] Kind(r) = "PowerSet" -> FlatSets \cup Intervals \cup NestedSets
      [] Kind(r) = "MapSet" -> Maps
      [] OTHER -> {e \in Values : IsOk(hash(e))}

NoValue == <<"None">>

(***************************************************************************)
(* One application of an operation of Value to inputs from the universe    *)
(***************************************************************************)
ClosureIdle == registers = <<>> /\ stack = <<>> /\ log = <<>>

InitValue ==
    /\ a \in Values
    /\ b = NoValue
    /\ idx = 0
    /\ op = "init"
    /\ res = NoValue
    /\ ClosureIdle

DoEq ==
    /\ op = "init"
    /\ \E y \in Values : b' = y /\ res' = eq(a, y)
    /\ op' = "eq"
    /\ UNCHANGED <<a, idx, registers, stack, log>>

DoCmp ==
    /\ op = "init"
    /\ \E y \in Values : b' = y /\ res' = cmp(a, y)
    /\ op' = "cmp"
    /\ UNCHANGED <<a, idx, registers, stack, log>>

\* Both operands are hashed, each with a hasher of its own.
DoHash ==
    /\ op = "init"
    /\ \E y \in Values : b' = y /\ res' = <<hash(a), hash(y)>>
    /\ op' = "hash"
    /\ UNCHANGED <<a, idx, registers, stack, log>>

DoCardinality ==
    /\ op = "init"
    /\ res' = IF cardinality(a) = CardPanic THEN Panic ELSE Ok(cardinality(a))
    /\ op' = "cardinality"
    /\ UNCHANGED <<a, b, idx, registers, stack, log>>

DoContains ==
    /\ op = "init"
    /\ is_set(a)
    /\ \E y \in Queries(a) : b' = y /\ res' = contains(a, y)
    /\ op' = "contains"
    /\ UNCHANGED <<a, idx, registers, stack, log>>

DoSubseteq ==
    /\ op = "init"
    /\ is_set(a)
    /\ \E y \in SetLikes : b' = y /\ res' = subseteq(a, y)
    /\ op' = "subseteq"
    /\ UNCHANGED <<a, idx, registers, stack, log>>

DoAsSet ==
    /\ op = "init"
    /\ res' = as_set(a)
    /\ op' = "as_set"
    /\ UNCHANGED <<a, b, idx, registers, stack, log>>

\* powerset_at_index on the enumerated base `a`, at an index below 2^n.
DoPowersetAtIndex ==
    /\ op = "init"
    /\ IsOk(as_set(a))
    /\ Cardinality(Val(as_set(a))) <= MaxBase
    /\ \E i \in 0..(Shl1(Cardinality(Val(as_set(a)))) - 1) :
          /\ idx' = i
          /\ res' = powerset_at_index(SetToSeq(Val(as_set(a))), i)
    /\ op' = "powerset_at_index"
    /\ UNCHANGED <<a, b, registers, stack, log>>

NextValue ==
    \/ DoEq
    \/ DoCmp
    \/ DoHash
    \/ DoCardinality
    \/ DoContains
    \/ DoSubseteq
    \/ DoAsSet
    \/ DoPowersetAtIndex

Spec == InitValue /\ [][NextValue]_vars

\* The enumeration operations alone: as_set and powerset_at_index.
NextEnumerate ==
    \/ DoAsSet
    \/ DoPowersetAtIndex

SpecEnumerate == InitValue /\ [][NextEnumerate]_vars

(***************************************************************************)
(* The properties.  Enumerable(v): v is set-like and as_set(v) returns.    *)
(* Two enumerated sets have the same members when they hold the same       *)
(* Values.                                                                 *)
(***************************************************************************)
Enumerable(v) == is_set(v) /\ IsOk(as_set(v))
Members(v) == Val(as_set(v))

\* C1: for set-like a and b, a == b is true exactly when as_set(a) and
\* as_set(b) contain the same members, independent of representation and also
\* for two values of the same lazy kind.
C1_EqIffSameMembers ==
    (op = "eq" /\ Enumerable(a) /\ Enumerable(b))
        => res = Ok(Members(a) = Members(b))

\* C2: for non-Lambda values a and b with a == b, hash(a) and hash(b) feed the
\* hasher the same sequence.
C2_EqualValuesHashAlike ==
    (op = "hash" /\ Kind(a) # "Lambda" /\ Kind(b) # "Lambda" /\ eq(a, b) = Ok(TRUE))
        => (IsOk(res[1]) /\ res[1] = res[2])

\* C3: for set-like a and b of differing kinds, cmp(a, b) is the lexicographic
\* comparison of their sorted enumerated members, so it is Equal when a and b
\* denote the same set.
C3_CmpSetLikesEnumerated ==
    (op = "cmp" /\ Enumerable(a) /\ Enumerable(b) /\ Kind(a) # Kind(b))
        => /\ res = CmpAsSets(a, b)
           /\ (Members(a) = Members(b) => res = Ok("Equal"))

\* C4: subseteq(r1, r2) is as_set(r1).is_subset(as_set(r2)) for every pair of
\* set-like values, the closed-form pairings with an empty r1 included.
C4_SubseteqAgrees ==
    (op = "subseteq" /\ Enumerable(a) /\ Enumerable(b))
        => res = Ok(HashSetIsSubset(Val(as_set(a)), Val(as_set(b))))

\* C5: for every set-like r, cardinality(r) returns a number, the number of
\* elements of as_set(r).
C5_CardinalityAgrees ==
    (op = "cardinality" /\ is_set(a))
        => /\ IsOk(res)
           /\ IsOk(as_set(a))
           /\ Val(res) = Cardinality(Val(as_set(a)))

\* C6: for every set-like r and element e, contains(r, e) is the boolean
\* as_set(r).contains(e), also for a CrossProduct asked about a List and for a
\* PowerSet asked about a set in any set-like representation.
C6_ContainsAgrees ==
    (op = "contains" /\ Enumerable(a))
        => res = HashLookup(Members(a), b)

\* C7: for a base of size n, i |-> powerset_at_index(base, i) on 0 <= i < 2^n
\* is injective, subset i holds the base element at position j exactly when
\* bit j of i is set, its image is the set of all subsets of the base, and
\* as_set(PowerSet(base)) has exactly these 2^n members.
C7_PowersetBijection ==
    /\ op = "powerset_at_index" =>
          LET elems == Val(as_set(a))
              base == SetToSeq(elems)
              indices == 0..(Pow(2, Len(base)) - 1)
          IN /\ Kind(res) = "Set"
             /\ res[2] \subseteq elems
             /\ \A j \in DOMAIN base :
                    base[j] \in res[2] <=> (idx \div Pow(2, j - 1)) % 2 = 1
             /\ \A i \in indices \ {idx} :
                    /\ powerset_at_index(base, i) # res
                    /\ eq(powerset_at_index(base, i), res) = Ok(FALSE)
             /\ {powerset_at_index(base, i) : i \in indices}
                    = {VSet(T) : T \in SUBSET elems}
    /\ (op = "as_set" /\ Kind(a) = "PowerSet" /\ Enumerable(a[2])) =>
          /\ res = Ok({VSet(T) : T \in SUBSET Val(as_set(a[2]))})
          /\ Cardinality(Val(res)) = Pow(2, Cardinality(Val(as_set(a[2]))))

\* PowerSet(Set({1, 2})) has been enumerated to {}, {1}, {2}, {1, 2}.
C7_Witness ==
    /\ op = "as_set"
    /\ a = VPowerSet(VSet({VInt(1), VInt(2)}))
    /\ res = Ok({VSet({}), VSet({VInt(1)}), VSet({VInt(2)}), VSet({VInt(1), VInt(2)})})

\* The total functions from the set D to the set R, as Maps.
AllMaps(D, R) == {VMap({<<k, f[k]>> : k \in D}) : f \in [D -> R]}

\* C8: as_set(MapSet(domain, range)) is the set of one empty Map when the
\* domain is empty, is empty when the domain is not and the range is, and is
\* otherwise the set of all |range|^|domain| total functions domain -> range.
C8_MapSetEnumeration ==
    (op = "as_set" /\ Kind(a) = "MapSet" /\ Enumerable(a[2]) /\ Enumerable(a[3]))
        => LET D == Val(as_set(a[2]))
               R == Val(as_set(a[3]))
           IN /\ res = Ok(IF D = {} THEN {VMap({})}
                          ELSE IF R = {} THEN {}
                          ELSE AllMaps(D, R))
              /\ (D # {} /\ R # {}) =>
                    Cardinality(Val(res)) = Pow(Cardinality(R), Cardinality(D))

\* C9: as_set(CrossProduct(members)) is empty when the product of the members'
\* cardinalities is 0, and is otherwise the set of the Tuples whose component
\* i is a member of as_set(members[i]), one per combination.
C9_CrossProductEnumeration ==
    (op = "as_set" /\ Kind(a) = "CrossProduct"
        /\ \A i \in DOMAIN a[2] : Enumerable(a[2][i]))
        => LET sets == [i \in DOMAIN a[2] |-> Val(as_set(a[2][i]))]
           IN res = Ok(IF \E i \in DOMAIN sets : sets[i] = {} THEN {}
                       ELSE {VTuple(t) : t \in
                               {u \in [DOMAIN sets -> UNION {sets[i] : i \in DOMAIN sets}] :
                                   \A i \in DOMAIN sets : u[i] \in sets[i]}})

\* C11: cmp(a, b) ends in the panic, and returns no Ordering, whenever a or b
\* is a Lambda, whatever the other operand and in either position.
C11_CmpLambdaPanics ==
    (op = "cmp" /\ (Kind(a) = "Lambda" \/ Kind(b) = "Lambda")) => res = Panic

(***************************************************************************)
(* Closures: Value::Lambda(registers, body) and as_closure                 *)
(*                                                                         *)
(* registers: the parameter cells of one Lambda, shared by all its         *)
(* invocations.  stack: the invocations in progress, innermost last; the   *)
(* body of an invocation may invoke the same Lambda again.  A frame holds  *)
(* the arguments, the cells as the body last read them (<<>> before its    *)
(* first read), and whether the body has re-entered the Lambda.  log: the  *)
(* arguments of the last invocation that returned to the evaluator.        *)
(***************************************************************************)
MaxCells == 2
MaxDepth == 2

\* The argument lists of an invocation: up to one argument more than there
\* are cells.  The lists start with 5 or with 7, and argument i + 1 is
\* argument i plus 10, so that no two positions and no two lists share a value.
ArgStarts == {5, 7}
Unset == <<"err">>

ArgLists(n) ==
    {[i \in 1..k |-> VInt(t + 10 * (i - 1))] : t \in ArgStarts, k \in 0..(n + 1)}

InitClosure ==
    /\ \E n \in 1..MaxCells : registers = [i \in 1..n |-> Unset]
    /\ stack = <<>>
    /\ log = <<>>
    /\ a = NoValue /\ b = NoValue /\ idx = 0 /\ op = "closure" /\ res = NoValue

\* A faulty variant of the cell writes that leaves a cell alone once it holds
\* an argument, so that a later invocation finds the earlier arguments.
WriteCells_once(regs, args) ==
    [i \in DOMAIN regs |->
        IF i <= Len(args) /\ regs[i] = Unset THEN Ok(args[i]) ELSE regs[i]]

\* A faulty variant of the cell writes that clears the cells after the last
\* argument.
WriteCells_clear(regs, args) ==
    [i \in DOMAIN regs |-> IF i <= Len(args) THEN Ok(args[i]) ELSE Unset]

\* args.into_iter().enumerate().for_each(|(i, arg)| *registers[i].borrow_mut() = Ok(arg))
WriteCells(regs, args) ==
    [i \in DOMAIN regs |-> IF i <= Len(args) THEN Ok(args[i]) ELSE regs[i]]

Reentered(s) ==
    IF s = <<>> THEN s ELSE [s EXCEPT ![Len(s)].nested = TRUE]

\* The closure is called: the cells are written, then the body starts.  With
\* more arguments than cells, registers[i] is out of bounds after the last
\* cell: the panic unwinds every invocation in progress and the evaluation
\* is over.
Invoke(args) ==
    /\ res # Panic
    /\ Len(stack) < MaxDepth
    /\ registers' = WriteCells(registers, args)
    /\ IF Len(args) > Len(registers)
       THEN stack' = <<>> /\ res' = Panic
       ELSE /\ stack' = Append(Reentered(stack),
                               [args |-> args, seen |-> <<>>, nested |-> FALSE])
            /\ res' = res
    /\ UNCHANGED <<log, a, b, idx, op>>

\* body.execute(env) reads the parameter cells.
BodyRead ==
    /\ stack # <<>>
    /\ stack' = [stack EXCEPT ![Len(stack)].seen = <<registers>>]
    /\ UNCHANGED <<registers, log, a, b, idx, op, res>>

\* body.execute(env) returns; nothing is restored.
Return ==
    /\ stack # <<>>
    /\ stack' = SubSeq(stack, 1, Len(stack) - 1)
    /\ log' = IF Len(stack) = 1
              THEN <<stack[1].args>>
              ELSE log
    /\ UNCHANGED <<registers, a, b, idx, op, res>>

NextClosure ==
    \/ \E args \in ArgLists(Len(registers)) : Invoke(args)
    \/ BodyRead
    \/ Return

SpecClosure == InitClosure /\ [][NextClosure]_vars

\* C10: in a sequence of non-nested invocations, each with as many arguments
\* as there are cells, every cell i holds that invocation's args[i] when the
\* body starts and whenever the body reads it, never an earlier invocation's.
C10_BodyReadsOwnArguments ==
    \A k \in DOMAIN stack :
        (~stack[k].nested /\ Len(stack[k].args) = Len(registers)) =>
            /\ k = Len(stack)
            /\ \A i \in DOMAIN registers : registers[i] = Ok(stack[k].args[i])
            /\ stack[k].seen \in {<<>>, <<[i \in DOMAIN registers |-> Ok(stack[k].args[i])]>>}

\* A closure of one cell was invoked with 5 and returned; it is invoked with
\* 7 and its body has read 7.
C10_Witness ==
    /\ Len(registers) = 1
    /\ log = <<<<VInt(5)>>>>
    /\ Len(stack) = 1
    /\ stack[1].args = <<VInt(7)>>
    /\ ~stack[1].nested
    /\ stack[1].seen = <<<<Ok(VInt(7))>>>>

\* The cells hold the arguments of the innermost invocation, as long as its
\* body has not called the closure again.
InnermostArgsInCells ==
    (stack # <<>> /\ ~stack[Len(stack)].nested) =>
        \A i \in 1..Len(stack[Len(stack)].args) :
            registers[i] = Ok(stack[Len(stack)].args[i])

\* A step that starts an invocation writes cell i := Ok(args[i]) for each of
\* its k arguments and leaves the other cells as they were; no other step
\* (a read of the body, a return) changes a cell.  A call with more arguments
\* than cells has written every cell when it panics.
CellsFrame ==
    /\ Len(stack') = Len(stack) + 1 =>
          LET args == stack'[Len(stack')].args
          IN \A i \in DOMAIN registers :
                registers'[i] = IF i <= Len(args) THEN Ok(args[i]) ELSE registers[i]
    /\ (Len(stack') <= Len(stack) /\ res' # Panic) => registers' = registers
    /\ (res' = Panic /\ res # Panic) =>
          \E args \in ArgLists(Len(registers)) :
              /\ Len(args) > Len(registers)
              /\ registers' = [i \in DOMAIN registers |-> Ok(args[i])]

\* C14: an invocation with k arguments writes exactly the cells 0..k-1 and
\* leaves the others unchanged, and nothing is restored when the body
\* returns; so once the body of an invocation has called the closure again,
\* the cells hold the inner invocation's arguments, for the rest of the outer
\* body too.
C14_CellsWrittenNeverRestored == []InnermostArgsInCells /\ [][CellsFrame]_vars

\* The body of an invocation with 5 called the closure with 7; the inner
\* invocation has returned and the outer body has read the cell: it holds 7.
C14_Witness ==
    /\ Len(registers) = 1
    /\ Len(stack) = 1
    /\ stack[1].args = <<VInt(5)>>
    /\ stack[1].nested
    /\ stack[1].seen = <<<<Ok(VInt(7))>>>>

(***************************************************************************)
(* Records, Maps and Sets built by insertion                               *)
(*                                                                         *)
(* a and b are two collections of one kind, built independently.  A        *)
(* collection is [kind, ins, stored]: ins are the entries inserted so far, *)
(* in insertion order; stored are the entries the hash collection holds,   *)
(* in the order in which their keys first came in.  An entry of a Record   *)
(* is <<name, value>>, of a Map <<key, value>>, of a Set <<element>>.      *)
(***************************************************************************)
MaxEntries == 2

\* Field values and Map values; keys and elements, with two empty intervals
\* of different bounds and one set of integers in two representations.
EntryVals == {VInt(1), VInt(2)}
KeyPool ==
    {VInt(1), VInterval(2, 1), VInterval(MaxInt + 1, MaxInt),
     VInterval(1, MaxInt), VSet(IntVals)}
Entries(kind) ==
    CASE kind = "Record" -> {<<n, v>> : n \in {"a", "b"}, v \in EntryVals}
      [] kind = "Map" -> {<<k, v>> : k \in KeyPool, v \in EntryVals}
      [] kind = "Set" -> {<<e>> : e \in KeyPool}

Range(s) == {s[i] : i \in DOMAIN s}

\* GenericHashMap::insert and GenericHashSet::insert: an entry whose key is
\* in the collection (same hash, then ==) takes the place of the stored one,
\* any other entry is added.
InsertEntry(kind, stored, e) ==
    IF \E i \in DOMAIN stored : KeyEq(kind, stored[i][1], e[1])
    THEN [i \in DOMAIN stored |->
            IF KeyEq(kind, stored[i][1], e[1]) THEN e ELSE stored[i]]
    ELSE Append(stored, e)

\* What the hasher is fed for the key of an entry.
EntryHash(kind, e) ==
    IF kind = "Record" THEN <<<<"str", e[1]>>>> ELSE Val(hash(e[1]))

\* iter() on a hash collection: the hash of a key decides the place of its
\* entry, whatever the insertion order; the entries whose keys have the same
\* hash share one bucket, which keeps them in the order they came in.
RECURSIVE Buckets(_, _, _)
Buckets(kind, stored, hs) ==
    IF hs = <<>> THEN <<>>
    ELSE SelectSeq(stored, LAMBDA e : EntryHash(kind, e) = Head(hs))
            \o Buckets(kind, stored, Tail(hs))

Iter(c) ==
    Buckets(c.kind, c.stored,
            SetToSeq({EntryHash(c.kind, c.stored[i]) : i \in DOMAIN c.stored}))

Empty(kind) == [kind |-> kind, ins |-> <<>>, stored |-> <<>>]

InitBuild ==
    /\ \E kind \in {"Record", "Map", "Set"} : a = Empty(kind) /\ b = Empty(kind)
    /\ idx = 0
    /\ op = "build"
    /\ res = NoValue
    /\ ClosureIdle

Inserted(c, e) ==
    [c EXCEPT !.ins = Append(c.ins, e), !.stored = InsertEntry(c.kind, c.stored, e)]

InsertA ==
    /\ op = "build"
    /\ Len(a.ins) < MaxEntries
    /\ \E e \in Entries(a.kind) : a' = Inserted(a, e)
    /\ UNCHANGED <<b, idx, op, res, registers, stack, log>>

InsertB ==
    /\ op = "build"
    /\ Len(b.ins) < MaxEntries
    /\ \E e \in Entries(b.kind) : b' = Inserted(b, e)
    /\ UNCHANGED <<a, idx, op, res, registers, stack, log>>

\* a == b, a.cmp(b) and the hashes of a and of b, for two Records or two Maps.
DoCompareBuilt ==
    /\ op = "build"
    /\ a.kind \in {"Record", "Map"}
    /\ res' = [eq |-> HashMapEq(a.kind, Range(a.stored), Range(b.stored)),
               cmp |-> CmpEntries(a.kind, Iter(a), Iter(b)),
               hash |-> <<HashEntries(a.kind, Iter(a)), HashEntries(b.kind, Iter(b))>>]
    /\ op' = "compared"
    /\ UNCHANGED <<a, b, idx, registers, stack, log>>

NextBuild ==
    \/ InsertA
    \/ InsertB
    \/ DoCompareBuilt

SpecBuild == InitBuild /\ [][NextBuild]_vars

\* a and b were built from the same pairs, no key twice, in any two orders.
SamePairs ==
    /\ Range(a.ins) = Range(b.ins)
    /\ Len(a.ins) = Len(a.stored)
    /\ Len(b.ins) = Len(b.stored)

\* C12: two Records, or two Maps, built by inserting the same pairs in
\* different orders are ==, compare as Equal, and feed the hasher the same
\* sequence.
C12_InsertionOrderIrrelevant ==
    (op = "compared" /\ SamePairs) =>
        /\ res.eq = Ok(TRUE)
        /\ res.cmp = Ok("Equal")
        /\ IsOk(res.hash[1])
        /\ res.hash[1] = res.hash[2]

\* The stored members of a Set, or the stored keys of a Map, are pairwise
\* different under ==, and no two of them enumerate to the same set.
Deduplicated(c) ==
    \A i, j \in DOMAIN c.stored :
        i # j =>
            LET x == c.stored[i][1]
                y == c.stored[j][1]
            IN /\ eq(x, y) # Ok(TRUE)
               /\ (Enumerable(x) /\ Enumerable(y)) => Members(x) # Members(y)

\* C13: after any sequence of insertions into a Set, or of keys into a Map, no
\* two stored members (keys) are equal under ==; a Set never holds both
\* Interval(1,2) and Set({1,2}), nor two lazy values that enumerate to the
\* same set.
C13_StoredMembersDistinct ==
    a.kind \in {"Set", "Map"} => (Deduplicated(a) /\ Deduplicated(b))

====
